---- MODULE Spec2Model ----
(***************************************************************************)
(* A model of cellulite: the items / cells / updates / metadata tables,    *)
(* the writers (add, add_raw_zerometry, delete, clear), the builder        *)
(* (src/src/builder.rs) and the reader (src/src/reader.rs).                *)
(*                                                                         *)
(* The hexagonal grid is an external library.  It is modelled here by a    *)
(* one-dimensional hierarchical grid: the world is a row of NumAtoms       *)
(* coordinates ("atoms"), a cell of resolution r is a run of Width(r)      *)
(* atoms, every cell has Fan children, and the finest cell still holds Sub *)
(* atoms, so that a shape can overlap a finest cell without covering it.   *)
(* Shapes are in general position: no polygon edge lies on a cell edge.    *)
(***************************************************************************)
EXTENDS Integers, Sequences, FiniteSets, TLC

\* ------------------------------------------------------------------ bounds
NumBase == 3
MaxRes == 2
NumItems == 2
Threshold == 2
MaxPolls == 48
MaxCancels == 1
NumWorkers == 2

\* --------------------------------------------------------- grid parameters
Fan == 3
Sub == 2
GridDiskRadius == 2
TooLargeLimit == 3

RECURSIVE Pow(_, _)
Pow(b, e) == IF e = 0 THEN 1 ELSE b * Pow(b, e - 1)

Min(a, b) == IF a < b THEN a ELSE b
Max(a, b) == IF a > b THEN a ELSE b

Resolutions == 0..MaxRes
WidthOf == [r \in Resolutions |-> Sub * Pow(Fan, MaxRes - r)]
Width(r) == WidthOf[r]
NumCellsOf == [r \in Resolutions |-> NumBase * Pow(Fan, r)]
NumCells(r) == NumCellsOf[r]
NumAtoms == NumBase * Width(0)
Atoms == 0..(NumAtoms - 1)

Cells == UNION {{<<r, k>> : k \in 0..(NumCells(r) - 1)} : r \in Resolutions}
base_cells == {<<0, k>> : k \in 0..(NumBase - 1)}
resolution(c) == c[1]
CellLo(c) == c[2] * Width(c[1])
CellHi(c) == CellLo(c) + Width(c[1]) - 1
get_cell_shape(c) == CellLo(c)..CellHi(c)
to_cell(a, r) == <<r, a \div Width(r)>>
center_child(c) == <<c[1] + 1, Fan * c[2] + (Fan \div 2)>>
grid_disk(c, k) ==
    {<<c[1], j>> : j \in Max(0, c[2] - k)..Min(NumCells(c[1]) - 1, c[2] + k)}

\* A faulty get_children_cells that gives up one resolution too early.
get_children_cells_floor_early(c) ==
    IF resolution(c) >= MaxRes - 1 THEN {}
    ELSE grid_disk(center_child(c), GridDiskRadius)
\* None (the empty set) when the resolution cannot be increased, otherwise the
\* disk of radius 2 around the center child, which over-covers the parent.
get_children_cells(c) ==
    IF resolution(c) = MaxRes THEN {}
    ELSE grid_disk(center_child(c), GridDiskRadius)
Children == [c \in Cells |-> get_children_cells(c)]

\* The cells of resolution r met by the run lo..hi (the tiler in Covers mode,
\* and the line plotter).
Coverage(lo, hi, r) == {<<r, k>> : k \in (lo \div Width(r))..(hi \div Width(r))}

\* ----------------------------------------------------------------- shapes
\* A part is a point, a line or a polygon over the run lo..hi of atoms.
Part(tag, lo, hi) == [tag |-> tag, lo |-> lo, hi |-> hi]
W0 == Width(0)
W1 == Width(1)

\* The geometries the writers may submit, by name.
\*  ptA, ptB  two points of base cell 1 that separate at resolution 1
\*  polyBig   a polygon that covers base cell 1 and bites into base cells 0 and 2
\*  coll      a collection: the point ptA together with the polygon polyBig
Geoms == {"ptA", "ptB", "polyBig", "coll"}
\* Ids are interchangeable: each id draws its geometries from its own part of
\* the catalogue (odd ids the points and the collection, even ids a point and
\* the polygon).
GeomsOf(i) == IF i % 2 = 1 THEN {"ptA", "ptB", "coll"} ELSE {"ptA", "polyBig"}
NoItem == "none"

Zerometry(g) ==
    CASE g = "ptA" -> [kind |-> "Point", parts |-> {Part("pt", W0 + W1 + 2, W0 + W1 + 2)}]
      [] g = "ptB" -> [kind |-> "Point", parts |-> {Part("pt", W0 + 1, W0 + 1)}]
      [] g = "polyBig" -> [kind |-> "Polygon", parts |-> {Part("pg", W0 - 1, 2 * W0)}]
      [] g = "coll" ->
            [kind |-> "Collection",
             parts |-> {Part("pt", W0 + W1 + 2, W0 + W1 + 2), Part("pg", W0 - 1, 2 * W0)}]

PartAtoms(p) == p.lo..p.hi
ShapeAtoms(g) == UNION {PartAtoms(p) : p \in Zerometry(g).parts}
\* The part and the run lo..hi have an atom in common.
Meets(p, lo, hi) == p.lo <= hi /\ p.hi >= lo

\* polygon.contains(cell polygon): the polygon part covers the whole cell.
Contains(p, c) == p.tag = "pg" /\ p.lo <= CellLo(c) /\ p.hi >= CellHi(c)
\* strict containment: the cell lies in the interior of the polygon part.
StrictContainsPart(p, c) == p.tag = "pg" /\ p.lo < CellLo(c) /\ p.hi > CellHi(c)

\* shape.relation(cell_shape, {strict_contained: false, ..all()})
relation(g, c) ==
    [strict_contains |-> \E p \in Zerometry(g).parts : StrictContainsPart(p, c),
     any_relation |-> \E p \in Zerometry(g).parts : Meets(p, CellLo(c), CellHi(c))]
\* The relation of every geometry of the catalogue with every cell.
Relations == [g \in Geoms |-> [c \in Cells |-> relation(g, c)]]

\* ------------------------------------------------------------------ tables
Ids == 1..NumItems
\* A table is a function from the keys of its rows to their bitmaps.
KeyVariant == {"Cell", "Belly"}
Keys == KeyVariant \X Cells
KeyCell(c) == <<"Cell", c>>
KeyBelly(c) == <<"Belly", c>>
Has(tbl, key) == key \in DOMAIN tbl
\* cell_db().get(..).unwrap_or_default()
Get(tbl, key) == IF key \in DOMAIN tbl THEN tbl[key] ELSE {}
Put(tbl, key, bitmap) ==
    [k \in DOMAIN tbl \cup {key} |-> IF k = key THEN bitmap ELSE tbl[k]]
\* The metadata table holds at most the Version row.
NoRow == <<>>
Row(v) == <<v>>

CodeVersion == <<0, 2, 0>>

\* reader is the in_shape call in progress, if any: a read transaction sees
\* the tables as they were when it began, so no write is taken while it runs.
VARIABLES item, cell, update, metadata, last, reader
vars == <<item, cell, update, metadata, last, reader>>

Idle == [pc |-> "idle"]

EmptyCells == <<>>

Init ==
    /\ item = [i \in Ids |-> NoItem]
    /\ cell = EmptyCells
    /\ update = [i \in Ids |-> "None"]
    /\ metadata = NoRow
    /\ last = [op |-> "create", inserted |-> {}, deleted |-> {}, result |-> "Ok",
              cancels |-> 0]
    /\ reader = Idle

\* A faulty set_version that leaves the row as it is.
set_version_skipped(md, version) == md
\* Cellulite::set_version: put the Version row.
set_version(md, version) == Row(version)
\* A faulty get_version that answers the default whatever the row holds.
get_version_default(md) == CodeVersion
\* Cellulite::get_version: the stored version, Version::default() without row.
get_version(md) == IF md = NoRow THEN CodeVersion ELSE md[1]


\* ----------------------------------------------------------------- writers
Last(op, ins, del, res) ==
    [op |-> op, inserted |-> ins, deleted |-> del, result |-> res,
     cancels |-> last.cancels]

\* A faulty add that also indexes the item at level zero right away.
AddEager(i, g) ==
    /\ item' = [item EXCEPT ![i] = g]
    /\ update' = [update EXCEPT ![i] = "Insert"]
    /\ LET cells == {to_cell(p.lo, 0) : p \in Zerometry(g).parts}
       IN  cell' = [key \in DOMAIN cell \cup {KeyCell(c) : c \in cells} |->
                       IF key[1] = "Cell" /\ key[2] \in cells
                       THEN Get(cell, key) \cup {i}
                       ELSE cell[key]]
    /\ last' = Last("add", {}, {}, "Ok")
    /\ UNCHANGED reader
    /\ UNCHANGED metadata

\* Cellulite::add: put the geometry in items, push an Insert marker.
Add(i, g) ==
    /\ item' = [item EXCEPT ![i] = g]
    /\ update' = [update EXCEPT ![i] = "Insert"]
    /\ last' = Last("add", {}, {}, "Ok")
    /\ UNCHANGED reader
    /\ UNCHANGED <<cell, metadata>>

\* Cellulite::add_raw_zerometry: the same two puts, the bytes being trusted.
AddRawZerometry(i, g) ==
    /\ item' = [item EXCEPT ![i] = g]
    /\ update' = [update EXCEPT ![i] = "Insert"]
    /\ last' = Last("add_raw_zerometry", {}, {}, "Ok")
    /\ UNCHANGED reader
    /\ UNCHANGED <<cell, metadata>>

\* A faulty delete that also drops the row of the items table right away.
DeleteEager(i) ==
    /\ update' = [update EXCEPT ![i] = "Delete"]
    /\ item' = [item EXCEPT ![i] = NoItem]
    /\ last' = Last("delete", {}, {}, "Ok")
    /\ UNCHANGED reader
    /\ UNCHANGED <<cell, metadata>>

\* A faulty delete that leaves the marker already queued for the id.
DeleteUnlessQueued(i) ==
    /\ update' = IF update[i] = "None" THEN [update EXCEPT ![i] = "Delete"] ELSE update
    /\ last' = Last("delete", {}, {}, "Ok")
    /\ UNCHANGED reader
    /\ UNCHANGED <<item, cell, metadata>>

\* Cellulite::delete: push a Delete marker, nothing else.
Delete(i) ==
    /\ update' = [update EXCEPT ![i] = "Delete"]
    /\ last' = Last("delete", {}, {}, "Ok")
    /\ UNCHANGED reader
    /\ UNCHANGED <<item, cell, metadata>>

\* A faulty clear that forgets the updates table.
ClearKeepsUpdates ==
    /\ item' = [i \in Ids |-> NoItem]
    /\ cell' = EmptyCells
    /\ metadata' = NoRow
    /\ last' = Last("clear", {}, {}, "Ok")
    /\ UNCHANGED reader
    /\ UNCHANGED update

\* Cellulite::clear: truncate the four tables.
Clear ==
    /\ item' = [i \in Ids |-> NoItem]
    /\ cell' = EmptyCells
    /\ update' = [i \in Ids |-> "None"]
    /\ metadata' = NoRow
    /\ last' = Last("clear", {}, {}, "Ok")
    /\ UNCHANGED reader

\* ----------------------------------------------------------------- builder
\* retrieve_and_clear_updated_items: the two bitmaps drained from updates.
inserted_items(upd) == {i \in Ids : upd[i] = "Insert"}
\* A faulty retrieval that drops the Delete markers when an Insert is queued.
removed_items_unless_inserting(upd) ==
    IF \E i \in Ids : upd[i] = "Insert" THEN {} ELSE {i \in Ids : upd[i] = "Delete"}
removed_items(upd) == {i \in Ids : upd[i] = "Delete"}

\* The builder's running state st: the cells table, the Result so far, the
\* number of cancel() polls that answered false, and the poll at which cancel()
\* first answers true (0: never).
BuildState(tbl, cancel_at) ==
    [cell |-> tbl, err |-> "Ok", polls |-> 0, cancel_at |-> cancel_at]
\* A faulty poll that drops the answer of cancel().
PollDropped(st) ==
    IF st.err # "Ok" THEN st ELSE [st EXCEPT !.polls = @ + 1]
\* if cancel() { return Err(Error::BuildCanceled) }
Poll(st) ==
    IF st.err # "Ok" THEN st
    ELSE IF st.polls + 1 = st.cancel_at THEN [st EXCEPT !.err = "BuildCanceled"]
    ELSE [st EXCEPT !.polls = @ + 1]
\* A loop of n iterations, each starting with a poll: the iterations completed.
Done(st, n) ==
    IF st.err # "Ok" THEN 0
    ELSE IF st.cancel_at = 0 \/ st.cancel_at > st.polls + n THEN n
    ELSE st.cancel_at - st.polls - 1
\* The polls of such a loop.
PollN(st, n) ==
    IF st.err # "Ok" THEN st
    ELSE IF Done(st, n) = n THEN [st EXCEPT !.polls = @ + n]
    ELSE [st EXCEPT !.err = "BuildCanceled", !.polls = @ + Done(st, n)]
Prefix(seq, k) == SubSeq(seq, 1, k)
Range(seq) == {seq[n] : n \in 1..Len(seq)}

\* remove_deleted_items, first loop: the rows of the items table.
remove_deleted_items_from_items(it, items) ==
    [i \in Ids |-> IF i \in items THEN NoItem ELSE it[i]]

\* A faulty scan that subtracts the deleted ids from the Cell rows only.
remove_deleted_items_from_cell_rows_only(tbl, items) ==
    [key \in {k \in DOMAIN tbl : k[1] = "Belly" \/ tbl[k] \ items # {}} |->
        IF key[1] = "Belly" THEN tbl[key] ELSE tbl[key] \ items]

\* A faulty scan that subtracts the deleted ids from the Belly rows only.
remove_deleted_items_from_belly_rows_only(tbl, items) ==
    [key \in {k \in DOMAIN tbl : k[1] = "Cell" \/ tbl[k] \ items # {}} |->
        IF key[1] = "Cell" THEN tbl[key] ELSE tbl[key] \ items]

\* remove_deleted_items, the cursor scans of the Cell rows and of the Belly
\* rows: subtract the deleted ids from every bitmap, delete the row when the
\* bitmap is empty (del_current), rewrite it otherwise (put_current).
remove_deleted_items_from_cells(tbl, items) ==
    [key \in {k \in DOMAIN tbl : tbl[k] \ items # {}} |-> tbl[key] \ items]
\* The same scans stopped by a cancel poll: only the rows of keys were visited.
RemoveFromRows(tbl, items, keys) ==
    [key \in {k \in DOMAIN tbl : k \notin keys \/ tbl[k] \ items # {}} |->
        IF key \in keys THEN tbl[key] \ items ELSE tbl[key]]

\* explode_level_zero_geo for one sub-geometry.
ExplodePart(p) ==
    CASE p.tag = "pt" -> [cells |-> {to_cell(p.lo, 0)}, belly |-> {}]
      [] p.tag = "ln" -> [cells |-> Coverage(p.lo, p.hi, 0), belly |-> {}]
      [] p.tag = "pg" ->
            [cells |-> {c \in Coverage(p.lo, p.hi, 0) : ~Contains(p, c)},
             belly |-> {c \in Coverage(p.lo, p.hi, 0) : Contains(p, c)}]

\* explode_level_zero_geo: the union of the sub-geometries' cells and bellies.
explode_level_zero_geo(g) ==
    [cells |-> UNION {ExplodePart(p).cells : p \in Zerometry(g).parts},
     belly |-> UNION {ExplodePart(p).belly : p \in Zerometry(g).parts}]

LevelZero == [g \in Geoms |-> explode_level_zero_geo(g)]

RECURSIVE SortCells(_)
SortCells(S) ==
    IF S = {} THEN <<>>
    ELSE LET m == CHOOSE c \in S : \A d \in S : c[2] <= d[2]
         IN  <<m>> \o SortCells(S \ {m})
Reverse(s) == [i \in 1..Len(s) |-> s[Len(s) + 1 - i]]
\* The iteration order of a HashMap is not fixed: ord is chosen by the caller.
Ordered(S, ord) == IF ord = "asc" THEN SortCells(S) ELSE Reverse(SortCells(S))
Orders == {"asc", "desc"}

\* In the operators below the running state st is evaluated once and named s.

\* insert_items_at_level_zero: the polls of the parallel loop over the items,
\* then the two write loops over the merged maps, a poll before every put.
insert_items_at_level_zero(st, items, frozen_items, ord) ==
    LET to_insert(c) == {i \in items : c \in LevelZero[frozen_items[i]].cells}
        belly(c) == {i \in items : c \in LevelZero[frozen_items[i]].belly}
        puts_seq ==
            [n \in 1..Cardinality({b \in base_cells : to_insert(b) # {}}) |->
                KeyCell(Ordered({b \in base_cells : to_insert(b) # {}}, ord)[n])]
            \o [n \in 1..Cardinality({b \in base_cells : belly(b) # {}}) |->
                KeyBelly(Ordered({b \in base_cells : belly(b) # {}}, ord)[n])]
        from(s) ==
            LET polled == PollN(s, Cardinality(items))
                puts == Range(Prefix(puts_seq, Done(polled, Len(puts_seq))))
                written ==
                    [key \in DOMAIN s.cell \cup puts |->
                        IF key \in puts /\ key[1] = "Cell"
                        THEN Get(s.cell, key) \cup to_insert(key[2])
                        ELSE IF key \in puts
                        THEN Get(s.cell, key) \cup belly(key[2])
                        ELSE s.cell[key]]
            IN  IF s.err # "Ok" THEN s
                ELSE IF polled.err # "Ok" THEN polled
                ELSE IF \E i \in items : frozen_items[i] = NoItem
                THEN [s EXCEPT !.err = "InternalDocIdMissing"]
                ELSE [PollN(polled, Len(puts_seq)) EXCEPT !.cell = written]
    IN  CHOOSE out \in {from(s) : s \in {st}} : TRUE

RECURSIVE insert_chunk_of_items_recursively(_, _, _, _, _)
RECURSIVE InsertInCells(_, _, _, _, _)

\* insert_chunk_of_items_recursively, step 4: the loop over to_insert.
InsertInCells(st, todo, to_insert, frozen_items, ord) ==
    IF todo = <<>> THEN st
    ELSE
      LET c == Head(todo)
          items_to_insert == to_insert[c]
          from(s) ==
            LET polled == Poll(s)
                original_bitmap == Get(polled.cell, KeyCell(c))
                new_bitmap == original_bitmap \cup items_to_insert
                written ==
                    [polled EXCEPT !.cell = Put(polled.cell, KeyCell(c), new_bitmap)]
                belly_items ==
                    {i \in original_bitmap :
                        Relations[frozen_items[i]][c].strict_contains}
                kept ==
                    {i \in original_bitmap :
                        /\ ~Relations[frozen_items[i]][c].strict_contains
                        /\ Relations[frozen_items[i]][c].any_relation}
                belly_cells == Get(written.cell, KeyBelly(c)) \cup belly_items
            IN  IF s.err # "Ok" THEN s
                ELSE IF polled.err # "Ok" THEN polled
                ELSE IF Cardinality(original_bitmap) >= Threshold
                THEN insert_chunk_of_items_recursively(
                         written, items_to_insert, c, frozen_items, ord)
                ELSE IF Cardinality(new_bitmap) >= Threshold
                THEN IF \E i \in original_bitmap : frozen_items[i] = NoItem
                     THEN [written EXCEPT !.err = "InternalDocIdMissing"]
                     ELSE insert_chunk_of_items_recursively(
                              [written EXCEPT
                                  !.cell = Put(written.cell, KeyBelly(c), belly_cells)],
                              items_to_insert \cup kept, c, frozen_items, ord)
                ELSE written
      IN  InsertInCells(CHOOSE out \in {from(s) : s \in {st}} : TRUE,
                        Tail(todo), to_insert, frozen_items, ord)

insert_chunk_of_items_recursively(st, items, c, frozen_items, ord) ==
    LET children_cells == Children[c]
        to_insert_in_belly ==
            [ch \in children_cells |->
                {i \in items : Relations[frozen_items[i]][ch].strict_contains}]
        to_insert ==
            [ch \in children_cells |->
                {i \in items :
                    /\ ~Relations[frozen_items[i]][ch].strict_contains
                    /\ Relations[frozen_items[i]][ch].any_relation}]
        belly_seq == Ordered({x \in children_cells : to_insert_in_belly[x] # {}}, ord)
        from(s) ==
            LET polled == PollN(s, Cardinality(children_cells))
                puts ==
                    {KeyBelly(ch) :
                        ch \in Range(Prefix(belly_seq, Done(polled, Len(belly_seq))))}
                with_belly ==
                    [key \in DOMAIN s.cell \cup puts |->
                        IF key \in puts
                        THEN Get(s.cell, key) \cup to_insert_in_belly[key[2]]
                        ELSE s.cell[key]]
            IN  IF s.err # "Ok" \/ children_cells = {} THEN s
                ELSE IF polled.err # "Ok" THEN polled
                ELSE IF \E i \in items : frozen_items[i] = NoItem
                THEN [s EXCEPT !.err = "InternalDocIdMissing"]
                ELSE InsertInCells(
                         [PollN(polled, Len(belly_seq)) EXCEPT !.cell = with_belly],
                         Ordered({ch \in children_cells : to_insert[ch] # {}}, ord),
                         to_insert, frozen_items, ord)
    IN  CHOOSE out \in {from(s) : s \in {st}} : TRUE

\* Cellulite::build, step 4: the loop over the base cells.
RECURSIVE SplitBaseCells(_, _, _, _, _)
SplitBaseCells(st, todo, inserted, frozen_items, ord) ==
    IF todo = <<>> THEN st
    ELSE
      LET c == Head(todo)
          from(s) ==
            LET polled == Poll(s)
                bitmap == Get(polled.cell, KeyCell(c))
            IN  IF s.err # "Ok" THEN s
                ELSE IF polled.err # "Ok" THEN polled
                ELSE IF Cardinality(bitmap) < Threshold \/ bitmap \cap inserted = {}
                THEN polled
                ELSE insert_chunk_of_items_recursively(
                         polled, bitmap, c, frozen_items, ord)
      IN  SplitBaseCells(CHOOSE out \in {from(s) : s \in {st}} : TRUE,
                         Tail(todo), inserted, frozen_items, ord)

\* The rows of one variant in key order (resolution, then index).
RECURSIVE SortRows(_)
SortRows(S) ==
    IF S = {} THEN <<>>
    ELSE LET m == CHOOSE k \in S : \A d \in S :
                      k[2][1] < d[2][1] \/ (k[2][1] = d[2][1] /\ k[2][2] <= d[2][2])
         IN  <<m>> \o SortRows(S \ {m})
RECURSIVE SortIds(_)
SortIds(S) ==
    IF S = {} THEN <<>>
    ELSE LET m == CHOOSE i \in S : \A j \in S : i <= j
         IN  <<m>> \o SortIds(S \ {m})

\* Cellulite::build, cancel() answering true at its poll number cancel_at
\* (0: never): the tables the call leaves in the transaction and its Result.
build_until(it, tbl, upd, md, ord, cancel_at) ==
    LET inserted == inserted_items(upd)
        removed == removed_items(upd)
        \* 1. retrieve_and_clear_updated_items: one poll per marker, then clear
        st0 == PollN(BuildState(tbl, cancel_at), Cardinality(inserted \cup removed))
        \* 2. remove_deleted_items: the items loop, then the two scans
        removed_seq == SortIds(removed)
        deleted_rows == Range(Prefix(removed_seq, Done(st0, Len(removed_seq))))
        frozen_items == remove_deleted_items_from_items(it, deleted_rows)
        st1 == PollN(st0, Len(removed_seq))
        rows == SortRows({k \in DOMAIN tbl : k[1] = "Cell"})
                    \o SortRows({k \in DOMAIN tbl : k[1] = "Belly"})
        scanned ==
            IF Done(st1, Len(rows)) = Len(rows)
            THEN remove_deleted_items_from_cells(tbl, removed)
            ELSE RemoveFromRows(tbl, removed, Range(Prefix(rows, Done(st1, Len(rows)))))
        st2 == IF st1.err # "Ok" THEN st1
               ELSE [PollN(st1, Len(rows)) EXCEPT !.cell = scanned]
        \* 3.0 retrieve_frozen_items: one poll per row of the items table
        st3 == PollN(st2, Cardinality({i \in Ids : frozen_items[i] # NoItem}))
        \* 3.1 and 4.
        st4 == insert_items_at_level_zero(st3, inserted, frozen_items, ord)
        st5 == SplitBaseCells(st4, SortCells(base_cells), inserted, frozen_items, ord)
        finish(s) ==
            [item |-> frozen_items, cell |-> s.cell,
             update |-> [i \in Ids |-> "None"],
             metadata |-> IF s.err = "Ok" THEN set_version(md, CodeVersion) ELSE md,
             result |-> s.err, polls |-> s.polls]
    IN  IF get_version(md) # CodeVersion
        THEN [item |-> it, cell |-> tbl, update |-> upd, metadata |-> md,
              result |-> "VersionMismatchOnBuild", found |-> get_version(md),
              polls |-> 0]
        ELSE IF st0.err # "Ok"
        THEN [item |-> it, cell |-> tbl, update |-> upd, metadata |-> md,
              result |-> st0.err, polls |-> st0.polls]
        ELSE CHOOSE out \in {finish(s) : s \in {st5}} : TRUE

\* Cellulite::build with a cancel that never answers true.
build(it, tbl, upd, md, ord) ==
    CHOOSE r \in {[item |-> out.item, cell |-> out.cell, update |-> out.update,
                   metadata |-> out.metadata, result |-> out.result] :
                      out \in {build_until(it, tbl, upd, md, ord, 0)}} : TRUE

Build(ord) ==
    \E out \in {build(item, cell, update, metadata, ord)} :
        /\ item' = out.item
        /\ cell' = out.cell
        /\ update' = out.update
        /\ metadata' = out.metadata
        /\ last' = Last("build", inserted_items(update), removed_items(update),
                        out.result)
        /\ UNCHANGED reader

Next ==
    \/ \E i \in Ids : \E g \in GeomsOf(i) : Add(i, g)
    \/ \E i \in Ids : \E g \in GeomsOf(i) : AddRawZerometry(i, g)
    \/ \E i \in Ids : Delete(i)
    \/ \E ord \in Orders : Build(ord)
    \/ Clear

Spec == Init /\ [][Next]_vars

\* A database file written by an earlier release: its metadata holds another
\* version than the code's.
OldVersion == <<0, 1, 0>>
InitAnyVersion ==
    /\ item = [i \in Ids |-> NoItem]
    /\ cell = EmptyCells
    /\ update = [i \in Ids |-> "None"]
    /\ metadata \in {NoRow, Row(OldVersion)}
    /\ last = [op |-> "create", inserted |-> {}, deleted |-> {}, result |-> "Ok",
              cancels |-> 0]
    /\ reader = Idle

\* Cellulite::build with a cancel that answers true at its poll number
\* cancel_at; the caller then commits the transaction or discards it.
BuildCanceled(ord, cancel_at, commit) ==
    \E out \in {build_until(item, cell, update, metadata, ord, cancel_at)} :
        /\ last.cancels < MaxCancels
        /\ out.result = "BuildCanceled"
        /\ item' = IF commit THEN out.item ELSE item
        /\ cell' = IF commit THEN out.cell ELSE cell
        /\ update' = IF commit THEN out.update ELSE update
        /\ metadata' = IF commit THEN out.metadata ELSE metadata
        /\ last' = [Last("build", inserted_items(update), removed_items(update),
                         out.result) EXCEPT !.cancels = @ + 1]
        /\ UNCHANGED reader

\* The polls at which a build of the current tables can be cancelled.
CancelPoints(ord) ==
    1..Min(MaxPolls, build_until(item, cell, update, metadata, ord, 0).polls)

\* The geometries added where builds are cancelled: two points of one cell,
\* enough to split it, and the polygon, which fills bellies.
CancelGeomsOf(i) == IF i % 2 = 1 THEN {"ptA"} ELSE {"ptA", "polyBig"}

NextCancel ==
    \/ \E i \in Ids : \E g \in CancelGeomsOf(i) : Add(i, g)
    \/ \E i \in Ids : Delete(i)
    \/ \E ord \in Orders : Build(ord)
    \/ Clear
    \/ \E ord \in Orders : \E cancel_at \in CancelPoints(ord) : \E commit \in BOOLEAN :
            BuildCanceled(ord, cancel_at, commit)

SpecCancel == InitAnyVersion /\ [][NextCancel]_vars


\* ------------------------------------------------------------------ reader
\* A query polygon is the run lo..hi of atoms.
Query(lo, hi) == [lo |-> lo, hi |-> hi]
\*  qIn     a small polygon around ptA, inside one resolution-1 cell
\*  qCell   a polygon that contains the resolution-1 cell of ptB
\*  qBase   a polygon that contains base cell 1
\*  qOut    a polygon of base cell 0 away from every shape of the catalogue
\*  qAll    the whole world
Queries ==
    {Query(W0 + W1 + 1, W0 + W1 + 2), Query(W0 - 1, W0 + W1), Query(W0 - 1, 2 * W0),
     Query(1, 2), Query(0, NumAtoms - 1)}

\* geo::Contains(polygon, cell polygon) and geo::Intersects(polygon, cell polygon)
QueryContains(q, c) == q.lo <= CellLo(c) /\ q.hi >= CellHi(c)
QueryIntersects(q, c) == q.lo <= CellHi(c) /\ q.hi >= CellLo(c)
\* shape.any_relation(polygon).any_relation()
any_relation(g, q) == \E p \in Zerometry(g).parts : Meets(p, q.lo, q.hi)

RECURSIVE Filter(_, _)
Filter(seq, S) ==
    IF seq = <<>> THEN <<>>
    ELSE IF Head(seq) \in S THEN Filter(Tail(seq), S)
    ELSE <<Head(seq)>> \o Filter(Tail(seq), S)

\* A faulty DeepDive that tiles the query polygon whatever too_large says.
DeepDiveTilesOfQuery(q, c, too_large) == Coverage(q.lo, q.hi, resolution(c) + 1)
\* The cells a DeepDive step tiles at the next resolution: the query polygon,
\* or the cell's own polygon once too_large is latched.
DeepDiveTiles(q, c, too_large) ==
    IF too_large THEN Coverage(CellLo(c), CellHi(c), resolution(c) + 1)
    ELSE Coverage(q.lo, q.hi, resolution(c) + 1)

\* The orders in which a tiler may yield the cells of a coverage: ascending or
\* descending, started at any of the first cells and wrapped around.
TilerOrders == Orders \X (0..(NumBase - 1))
\* The cells of a coverage, all of one resolution, in the order ord.
Yielded(S, ord) ==
    LET n == Cardinality(S)
        asc == [m \in 1..n |-> CHOOSE c \in S : Cardinality({d \in S : d[2] < c[2]}) = m - 1]
        s == IF ord[1] = "asc" THEN asc ELSE Reverse(asc)
        k == IF n = 0 THEN 0 ELSE ord[2] % n
    IN  SubSeq(s, k + 1, n) \o SubSeq(s, 1, k)
\* A faulty tiler that yields no more than TooLargeLimit cells of a coverage.
TiledTruncated(S, ord) ==
    SubSeq(Yielded(S, ord), 1, Min(Cardinality(S), TooLargeLimit))
\* tiler.into_coverage()
Tiled(S, ord) == Yielded(S, ord)

\* The state of the reader before its loop: nothing returned, nothing to
\* double check, too_large not set, the inspector not yet called, no cell
\* skipped.
NoneExplored ==
    [ret |-> {}, double_check |-> {}, too_large |-> FALSE, steps |-> <<>>,
     skipped |-> 0]

\* A faulty test that stops at the last resolution only.
IsLeafAtLastResolutionOnly(items, c) == resolution(c) = MaxRes
\* items.len() < self.threshold || resolution == Resolution::Fifteen
IsLeaf(items, c) == Cardinality(items) < Threshold \/ resolution(c) = MaxRes

\* in_shape_with_inspector, the body of the loop for a cell c that was not
\* explored before: c is read and handled, and the inspector is told how.
\* acc holds the bitmaps ret and double_check, the too_large latch, the
\* inspector's steps in order and the number of cells skipped so far.  The
\* tiler yields the cells of a coverage in the order ord.
ExploreCell(tbl, q, c, rest, already_explored, acc, ord) ==
    LET explored == already_explored \cup {c}
        items == tbl[KeyCell(c)]
        tiles == DeepDiveTiles(q, c, acc.too_large)
        Step(name) == Append(acc.steps, <<name, c>>)
        Turn(queue, a) ==
            [to_explore |-> queue, already_explored |-> explored, acc |-> a]
    IN  IF ~Has(tbl, KeyCell(c))
        THEN Turn(rest, [acc EXCEPT !.steps = Step("NotPresentInDB")])
        ELSE IF QueryContains(q, c)
        THEN Turn(rest, [acc EXCEPT !.steps = Step("Returned"), !.ret = @ \cup items])
        ELSE IF QueryIntersects(q, c)
        THEN IF IsLeaf(items, c)
             THEN Turn(rest, [acc EXCEPT !.steps = Step("RequireDoubleCheck"),
                                         !.double_check = @ \cup items])
             ELSE Turn(rest \o Filter(Tiled(tiles, ord), explored),
                       [acc EXCEPT !.steps = Step("DeepDive"),
                                   !.too_large = @ \/ Cardinality(tiles) > TooLargeLimit])
        ELSE Turn(rest, [acc EXCEPT !.steps = Step("OutsideOfShape")])

\* A faulty turn of the loop that handles the cell at the front even when it
\* was explored before.
ExploreStepWithoutSkip(tbl, q, to_explore, already_explored, acc, ord) ==
    ExploreCell(tbl, q, Head(to_explore), Tail(to_explore), already_explored, acc, ord)

\* in_shape_with_inspector, one turn of the loop over to_explore: the cell at
\* the front is popped and, unless it was explored already, handled.
ExploreStep(tbl, q, to_explore, already_explored, acc, ord) ==
    IF Head(to_explore) \in already_explored
    THEN [to_explore |-> Tail(to_explore), already_explored |-> already_explored,
          acc |-> [acc EXCEPT !.skipped = @ + 1]]
    ELSE ExploreCell(tbl, q, Head(to_explore), Tail(to_explore), already_explored,
                     acc, ord)

\* The loop run until to_explore is empty.  Each turn is evaluated once and
\* named n.
RECURSIVE Explore(_, _, _, _, _, _)
Explore(tbl, q, to_explore, already_explored, acc, ord) ==
    IF to_explore = <<>> THEN acc
    ELSE CHOOSE out \in
            {Explore(tbl, q, n.to_explore, n.already_explored, n.acc, ord) :
                n \in {ExploreStep(tbl, q, to_explore, already_explored, acc, ord)}} : TRUE

\* The loop run from the coverage of the query at resolution 0.
ExploredIn(tbl, q, ord) ==
    Explore(tbl, q, Tiled(Coverage(q.lo, q.hi, 0), ord), {}, NoneExplored, ord)

\* The order in which the tiler of this build yields a coverage.
Explored(tbl, q) == ExploredIn(tbl, q, <<"asc", 0>>)

\* A faulty in_shape that returns the exact bitmap and skips the double check.
in_shape_without_double_check(it, tbl, q) ==
    [result |-> "Ok", ret |-> Explored(tbl, q).ret]

\* in_shape when the tiler yields coverages in the order ord: the bitmap
\* returned, or a panic when a candidate of the double check has no row in the
\* items table (the unwrap of item_db().get).
in_shape_in(it, tbl, q, ord) ==
    LET acc == ExploredIn(tbl, q, ord)
        double_check == acc.double_check \ acc.ret
    IN  IF \E i \in double_check : it[i] = NoItem
        THEN [result |-> "panic", ret |-> {}]
        ELSE [result |-> "Ok",
              ret |-> acc.ret \cup {i \in double_check : any_relation(it[i], q)}]

\* in_shape
in_shape(it, tbl, q) == in_shape_in(it, tbl, q, <<"asc", 0>>)

\* A circle: its center, its radius in atoms and the number of vertices asked.
Circle(center, radius, n) == [center |-> center, radius |-> radius, n |-> n]
\* The polygon of in_circle: n vertices on the circle, the first at bearing 0.
\* On the line its far end is that vertex, at the radius; its near end is the
\* side opposite, which lies inside the circle by a slack that shrinks with n.
InscribedPolygon(circ) ==
    Query(Max(0, circ.center - (circ.radius - circ.radius \div circ.n)),
          Min(NumAtoms - 1, circ.center + circ.radius))
\* in_circle: in_shape of the inscribed polygon.
in_circle(it, tbl, circ) == in_shape(it, tbl, InscribedPolygon(circ))

\* in_shape_with_inspector called: the read transaction is open, the tiler
\* has covered the query at resolution 0 and nothing is explored yet.
InShape(q, ord) ==
    /\ reader.pc = "idle"
    /\ reader' = [pc |-> "loop", q |-> q, ord |-> ord,
                  to_explore |-> Tiled(Coverage(q.lo, q.hi, 0), ord),
                  already_explored |-> {}, acc |-> NoneExplored]
    /\ UNCHANGED <<item, cell, update, metadata, last>>

\* One turn of while let Some(cell) = to_explore.pop_front().
InShapeTurn ==
    /\ reader.pc = "loop"
    /\ reader.to_explore # <<>>
    /\ \E n \in {ExploreStep(cell, reader.q, reader.to_explore,
                             reader.already_explored, reader.acc, reader.ord)} :
            reader' = [reader EXCEPT !.to_explore = n.to_explore,
                                     !.already_explored = n.already_explored,
                                     !.acc = n.acc]
    /\ UNCHANGED <<item, cell, update, metadata, last>>

\* pop_front answers None: the loop is left, the candidates are double
\* checked and the call returns (or panics on a candidate without item).
InShapeReturn ==
    /\ reader.pc = "loop"
    /\ reader.to_explore = <<>>
    /\ reader' = Idle
    /\ UNCHANGED <<item, cell, update, metadata, last>>

\* The geometries added where the turns of the reader are followed: the
\* collection and the polygon, which fill several cells of one resolution up
\* to the threshold, and a point.
ReaderGeomsOf(i) == IF i % 2 = 1 THEN {"coll", "ptA"} ELSE {"polyBig"}

\* Writes and builds between the calls of in_shape, and the turns of a call.
NextReader ==
    \/ reader.pc = "idle" /\ \E i \in Ids : \E g \in ReaderGeomsOf(i) : Add(i, g)
    \/ reader.pc = "idle" /\ \E i \in Ids : Delete(i)
    \/ reader.pc = "idle" /\ \E ord \in Orders : Build(ord)
    \/ \E q \in Queries : \E ord \in Orders : InShape(q, <<ord, 0>>)
    \/ InShapeTurn
    \/ InShapeReturn

\* A call of in_shape is sequential code: once begun, its loop keeps taking
\* turns and its return is taken when the loop is left.
SpecReader ==
    Init /\ [][NextReader]_vars /\ WF_vars(InShapeTurn) /\ WF_vars(InShapeReturn)

\* Cellulite::item
item_get(it, i) == it[i]
Stored == {i \in Ids : item[i] # NoItem}
InSync == \A i \in Ids : update[i] = "None"


\* -------------------------------------------------------------- properties
\* The last call was a build that returned Ok.
Built == last.op = "build" /\ last.result = "Ok"
\* The bounding polygon of a geometry.
Envelope(g) ==
    LET parts == Zerometry(g).parts
    IN  Query(CHOOSE lo \in {p.lo : p \in parts} : \A p \in parts : lo <= p.lo,
              CHOOSE hi \in {p.hi : p \in parts} : \A p \in parts : hi >= p.hi)
Result(q) == in_shape(item, cell, q).ret
Touches(g, c) == \E p \in Zerometry(g).parts : Meets(p, CellLo(c), CellHi(c))
Covers(g, c) == \E p \in Zerometry(g).parts : Contains(p, c)
IsPoint(g) == Zerometry(g).kind = "Point"
InCell(i, c) == i \in Get(cell, KeyCell(c))
InBelly(i, c) == i \in Get(cell, KeyBelly(c))
Visited(q) == {Explored(cell, q).steps[n][2] : n \in 1..Len(Explored(cell, q).steps)}

\* C1 (query completeness): after a successful build that leaves no pending
\* update, in_shape(Q) contains every stored item whose geometry has a relation
\* with Q.
C1_Completeness ==
    (Built /\ InSync) =>
        \A q \in Queries : \A i \in Stored : any_relation(item[i], q) => i \in Result(q)

\* C2 (query soundness): after any sequence of add, delete and build that
\* ends with a successful build (the states where the index is up to date), a
\* query polygon disjoint from every geometry of the items table returns the
\* empty set.
C2_Soundness ==
    Built =>
        \A q \in Queries :
            (\A i \in Stored : ~any_relation(item[i], q)) => Result(q) = {}

\* C3 (belly items are returned): after a successful build, for every cell C
\* visited by in_shape(Q) and every item i of belly[C], i is in the result when
\* Q contains C, and when Q intersects C and i's geometry has a relation with Q.
C3_BellyReturned ==
    (Built /\ InSync) =>
        \A q \in Queries : \A c \in Visited(q) : \A i \in Get(cell, KeyBelly(c)) \cap Stored :
            /\ QueryContains(q, c) => i \in Result(q)
            /\ (QueryIntersects(q, c) /\ any_relation(item[i], q)) => i \in Result(q)

\* C4 (envelope query): after a successful build, every stored id is returned
\* by in_shape on the bounding polygon of its geometry.
C4_Envelope ==
    Built => \A i \in Stored : i \in Result(Envelope(item[i]))
\* A build has indexed a polygon that fills the belly of a base cell together
\* with a point, below level zero, and both envelope queries return their item.
C4_Witness ==
    /\ Built
    /\ \E key \in DOMAIN cell : resolution(key[2]) > 0
    /\ \E i \in Stored :
            /\ Zerometry(item[i]).kind = "Polygon"
            /\ \E c \in base_cells : InBelly(i, c)
            /\ i \in Result(Envelope(item[i]))
    /\ \E j \in Stored : IsPoint(item[j]) /\ j \in Result(Envelope(item[j]))

\* C5 (deletion completeness): after a successful build that processed a
\* Delete marker for i, no cell bitmap and no belly bitmap contains i and the
\* items table has no row for i.
C5_DeletionComplete ==
    Built =>
        \A i \in last.deleted :
            /\ item[i] = NoItem
            /\ \A key \in DOMAIN cell : i \notin cell[key]
\* A build has just deleted an item of an index that had been split (a row
\* below level zero exists) and that keeps another indexed item.
C5_Witness ==
    /\ Built
    /\ last.deleted # {}
    /\ Stored # {}
    /\ \E key \in DOMAIN cell : resolution(key[2]) > 0

\* The operations the specification calls writes.
IsWrite(op) == op \in {"add", "add_raw_zerometry", "delete"}

\* C6 (writers leave the cells table alone): a step of add, add_raw_zerometry
\* or delete leaves every row of the cells table, cell and belly, as it was.
C6_WritersKeepCells ==
    [][IsWrite(last'.op) => cell' = cell]_vars
\* A write has been issued on top of a built, non-empty cells table.
C6_Witness ==
    /\ IsWrite(last.op)
    /\ ~InSync
    /\ \E key \in DOMAIN cell : cell[key] # {}

\* C7 (delete only records a marker), with clear named as the other removal:
\* a delete step writes one Delete marker and leaves the items table, the
\* cells table and the metadata as they were, and a row of the items table
\* disappears only in a build that processes its Delete marker or in clear.
C7_DeleteOnlyMarks ==
    [][/\ last'.op = "delete" =>
            /\ item' = item /\ cell' = cell /\ metadata' = metadata
            /\ \E i \in Ids : update' = [update EXCEPT ![i] = "Delete"]
       /\ \A i \in Ids :
            (item[i] # NoItem /\ item'[i] = NoItem) =>
                \/ last'.op = "build" /\ update[i] = "Delete"
                \/ last'.op = "clear"]_vars
\* A delete has just been issued for an indexed item, whose geometry item(id)
\* still returns.
C7_Witness ==
    /\ last.op = "delete"
    /\ \E i \in Stored :
            /\ update[i] = "Delete"
            /\ item_get(item, i) # NoItem
            /\ \E key \in DOMAIN cell : i \in cell[key]
\* C7 as stated: a row of the items table disappears only in a build that
\* processes its Delete marker.
C7_RemovedOnlyByDeleteThenBuild ==
    [][\A i \in Ids :
            (item[i] # NoItem /\ item'[i] = NoItem) =>
                (last'.op = "build" /\ update[i] = "Delete")]_vars

\* C8 (level-0 covering): after a successful build every stored item is in the
\* cell or belly bitmap of every base cell its geometry touches, and a Point
\* item is in the cell bitmap of exactly one base cell.
C8_LevelZeroCovering ==
    Built =>
        \A i \in Stored :
            /\ \A c \in base_cells : Touches(item[i], c) => (InCell(i, c) \/ InBelly(i, c))
            /\ IsPoint(item[i]) => Cardinality({c \in base_cells : InCell(i, c)}) = 1

\* C9 (meaning of the stored sets): after a successful build, each id of a
\* cell row has a stored geometry that overlaps the cell without entirely
\* covering it, and each id of a belly row has a stored geometry that entirely
\* covers the cell.
C9_StoredSetsMeaning ==
    Built =>
        \A key \in DOMAIN cell : \A i \in cell[key] :
            /\ i \in Stored
            /\ key[1] = "Cell" => (Touches(item[i], key[2]) /\ ~Covers(item[i], key[2]))
            /\ key[1] = "Belly" => Covers(item[i], key[2])

\* C10 (cell and belly are disjoint): after a successful build, for every cell
\* C no id is in both cell[C] and belly[C], and an id indexed at C is in
\* belly[C] iff its geometry fully covers C.
C10_CellBellyDisjoint ==
    Built =>
        \A c \in Cells :
            /\ Get(cell, KeyCell(c)) \cap Get(cell, KeyBelly(c)) = {}
            /\ \A i \in (Get(cell, KeyCell(c)) \cup Get(cell, KeyBelly(c))) \cap Stored :
                    InBelly(i, c) <=> Covers(item[i], c)

\* The cells of the next resolution that lie inside c.
ChildrenOf(c) == {ch \in Children[c] : ch[2] \div Fan = c[2]}
HasRow(c) == Has(cell, KeyCell(c)) \/ Has(cell, KeyBelly(c))

\* C11 (threshold discipline): after a successful build, every cell that has
\* a child row in the store holds at least threshold ids in its cell bitmap.
C11_ThresholdDiscipline ==
    Built =>
        \A c \in Cells :
            (\E ch \in ChildrenOf(c) : HasRow(ch)) =>
                Cardinality(Get(cell, KeyCell(c))) >= Threshold

\* C12 (empty-row policy): after every build, no row of the cells table,
\* cell or belly, holds the empty set.
C12_NoEmptyRow ==
    last.op = "build" => \A key \in DOMAIN cell : cell[key] # {}

\* C13 (idempotence of build): a successful build that directly follows a
\* successful build leaves the four tables as the first one left them.
C13_BuildIdempotent ==
    [][(Built /\ last'.op = "build" /\ last'.result = "Ok") =>
            (item' = item /\ cell' = cell /\ update' = update /\ metadata' = metadata)]_vars

\* A query polygon covering everything.
Universe == Query(0, NumAtoms - 1)

\* C20 (one build applies queued deletions and insertions): a successful
\* build over the Delete markers D and the Insert markers A makes the query
\* covering everything return (what it returned before minus D) union A,
\* removes the items row of every d in D and keeps the row of every a in A.
C20_DeleteAndAddInOneBuild ==
    [][(last'.op = "build" /\ last'.result = "Ok") =>
            LET D == {i \in Ids : update[i] = "Delete"}
                A == {i \in Ids : update[i] = "Insert"}
            IN  /\ in_shape(item', cell', Universe).ret
                        = (in_shape(item, cell, Universe).ret \ D) \cup A
                /\ \A d \in D : item_get(item', d) = NoItem
                /\ \A a \in A : item_get(item', a) # NoItem]_vars
\* A build has just applied a deletion and an insertion to an index that had
\* been split, and the query covering everything returns the inserted id only.
C20_Witness ==
    /\ Built
    /\ last.deleted # {}
    /\ last.inserted # {}
    /\ Result(Universe) = last.inserted
    /\ \E key \in DOMAIN cell : resolution(key[2]) > 0

\* C14: whenever build returns an error, the markers that were pending before
\* the call are still in the updates table the call leaves, committed or not.
C14_UpdatesKeptOnError ==
    [][(last'.op = "build" /\ last'.result # "Ok") => update' = update]_vars

\* C15: a build run to completion on the state left by a cancelled build
\* yields the items and cells tables, and the query results, of one
\* uncancelled build from the state before the cancelled one.
C15_CancelledBuildRetried ==
    [][(last'.op = "build" /\ last'.result = "BuildCanceled") =>
            \A ord \in Orders :
                \E retried \in {build(item', cell', update', metadata', ord)} :
                \E single \in {build(item, cell, update, metadata, ord)} :
                    /\ retried.result = "Ok"
                    /\ retried.item = single.item
                    /\ retried.cell = single.cell
                    /\ \A q \in Queries :
                          in_shape(retried.item, retried.cell, q).ret
                              = in_shape(single.item, single.cell, q).ret]_vars

C17_VersionGate ==
    (metadata # NoRow /\ metadata[1] # CodeVersion) =>
        \A ord \in Orders : \A cancel_at \in {0, 1} :
            \E out \in {build_until(item, cell, update, metadata, ord, cancel_at)} :
                /\ out.result = "VersionMismatchOnBuild"
                /\ out.found = metadata[1]
                /\ out.item = item
                /\ out.cell = cell
                /\ out.update = update
                /\ out.metadata = metadata
\* A build refused on a database of an earlier release with markers pending.
C17_Witness ==
    /\ metadata = Row(OldVersion)
    /\ last.op = "build"
    /\ last.result = "VersionMismatchOnBuild"
    /\ \E i \in Ids : update[i] = "Insert"
    /\ \E i \in Ids : update[i] = "Delete"

\* C18: get_version answers the code's version while the metadata table has
\* no row; a successful build leaves the code's version in the row; a build
\* that returns an error leaves the metadata table as it was.
C18_VersionLifecycle ==
    [][/\ (metadata = NoRow => get_version(metadata) = CodeVersion)
       /\ (last'.op = "build" /\ last'.result = "Ok") =>
              (metadata' = Row(CodeVersion) /\ get_version(metadata') = CodeVersion)
       /\ (last'.op = "build" /\ last'.result # "Ok") => metadata' = metadata]_vars
\* The first successful build of a database, after a cancelled one.
C18_Witness ==
    /\ last.op = "build"
    /\ last.result = "Ok"
    /\ last.cancels = 1
    /\ last.inserted # {}
    /\ metadata = Row(CodeVersion)

\* The cells table agrees with the items table: every stored item is in a row
\* of every base cell its geometry touches, and every indexed id is stored.
IndexInSync ==
    /\ \A i \in Stored : \A c \in base_cells :
          Touches(item[i], c) => (InCell(i, c) \/ InBelly(i, c))
    /\ \A key \in DOMAIN cell : cell[key] \subseteq Stored
\* C19: in every reachable state, when the updates table is empty the cells
\* table is in sync with the items table (the half of the equivalence that
\* readers rely on; the other half already fails after delete of an id that
\* was never added).
C19_EmptyUpdatesMeansInSync == InSync => IndexInSync

\* The four tables as one value, and the writers and build as functions of it.
Db == [item |-> item, cell |-> cell, update |-> update, metadata |-> metadata]
add(db, i, g) == [db EXCEPT !.item[i] = g, !.update[i] = "Insert"]
delete(db, i) == [db EXCEPT !.update[i] = "Delete"]
built(db, ord) == build(db.item, db.cell, db.update, db.metadata, ord)
\* The rows of a cells table that hold id i.
RowsOf(tbl, i) == {key \in DOMAIN tbl : i \in tbl[key]}
\* add(i, g1); build; delete(i); build; add(i, g2); build from the current
\* tables: the three results and the tables left.
Reinserted(i, g1, g2, ord) ==
    CHOOSE r \in
        UNION {UNION {
            {[first |-> b1.result, second |-> b2.result, third |-> b3.result,
              cleaned |-> RowsOf(b2.cell, i), item |-> b3.item, cell |-> b3.cell] :
                b3 \in {built(add(b2, i, g2), ord)}} :
                    b2 \in {built(delete(b1, i), ord)}} :
                        b1 \in {built(add(Db, i, g1), ord)}} : TRUE

NonEmptyRows(tbl, r) == {key \in DOMAIN tbl : resolution(key[2]) = r /\ tbl[key] # {}}
\* C22: no row is ever written above the finest resolution; and a successful
\* build that leaves at least threshold items, all of them the same point,
\* in an index that held nothing else, leaves at every resolution exactly one
\* non-empty row, the Cell row of the cell of the point, holding every id.
C22_ResolutionFloor ==
    [][/\ \A key \in DOMAIN cell' : resolution(key[2]) <= MaxRes
       /\ \A g \in Geoms :
            (/\ last'.op = "build" /\ last'.result = "Ok"
             /\ IsPoint(g)
             /\ \A i \in Ids : update[i] # "Delete"
             /\ \A key \in DOMAIN cell :
                   cell[key] \subseteq {i \in Ids : item[i] = g} /\ Touches(g, key[2])
             /\ \A i \in Ids : item'[i] \in {g, NoItem}
             /\ Cardinality({i \in Ids : item'[i] = g}) >= Threshold)
            => \A r \in Resolutions :
                  \E c \in Cells :
                      /\ resolution(c) = r
                      /\ Touches(g, c)
                      /\ NonEmptyRows(cell', r) = {KeyCell(c)}
                      /\ cell'[KeyCell(c)] = {i \in Ids : item'[i] = g}]_vars
\* Two coincident points built at threshold two: the finest cell holds both.
C22_Witness ==
    /\ Built
    /\ \A i \in Ids : item[i] = "ptA"
    /\ \E c \in Cells : resolution(c) = MaxRes /\ Get(cell, KeyCell(c)) = Ids
    /\ \A r \in Resolutions : Cardinality(NonEmptyRows(cell, r)) = 1

\* C23: in every state reached through add, delete, build (a cancelled build
\* whose transaction was committed included) and clear, in_shape returns a
\* bitmap: every candidate of the double check has a row in the items table.
C23_QueriesNeverFail == \A q \in Queries : in_shape(item, cell, q).result = "Ok"

\* The Belly rows of a cells table.
BellyRows(tbl) == {key \in DOMAIN tbl : key[1] = "Belly"}
\* C24: when every stored shape is a point, build creates no belly entry: a
\* build over a cells table without Belly row and an items table of points
\* leaves a cells table without Belly row.
C24_PointsMakeNoBelly ==
    [][(/\ last'.op = "build"
        /\ BellyRows(cell) = {}
        /\ \A i \in Stored : IsPoint(item[i]))
            => BellyRows(cell') = {}]_vars

\* C25: clear leaves the four tables empty; get_version then answers the
\* code's version, every query returns the empty set, and a build that
\* follows succeeds and indexes nothing.
C25_ClearTruncates ==
    [][last'.op = "clear" =>
          /\ \A i \in Ids : item'[i] = NoItem /\ update'[i] = "None"
          /\ DOMAIN cell' = {}
          /\ metadata' = NoRow
          /\ get_version(metadata') = CodeVersion
          /\ \A q \in Queries :
                \E r \in {in_shape(item', cell', q)} : r.result = "Ok" /\ r.ret = {}
          /\ \A ord \in Orders :
                \E b \in {build(item', cell', update', metadata', ord)} :
                    /\ b.result = "Ok"
                    /\ DOMAIN b.cell = {}
                    /\ \A i \in Ids : b.item[i] = NoItem]_vars
\* clear has just run on a database that went through a cancelled build.
C25_Witness == last.op = "clear" /\ last.cancels = 1 /\ metadata = NoRow

\* The circles asked: around the resolution-1 cell of ptB, around ptA, and a
\* wide one, with few and with many vertices.
Circles ==
    {Circle(W0 + 2, 4, n) : n \in {3, 8}}
        \cup {Circle(W0 + W1 + 2, 2, n) : n \in {3, 8}}
        \cup {Circle(W0 + W1, W1 + 2, 4)}
\* The atom of a point geometry and its distance to the center of a circle.
PointOf(g) == CHOOSE a \in Atoms : \E p \in Zerometry(g).parts : p.lo = a
Distance(a, b) == IF a >= b THEN a - b ELSE b - a
\* C26: after a successful build, in_circle never returns a point item whose
\* distance to the center exceeds the radius.
C26_CircleConservative ==
    Built =>
        \A circ \in Circles :
            \E r \in {in_circle(item, cell, circ)} :
                r.result = "Ok" =>
                    \A i \in r.ret \cap Stored :
                        IsPoint(item[i]) =>
                            Distance(PointOf(item[i]), circ.center) <= circ.radius

\* C27 (push-down): after a successful build, for every cell C above the
\* finest resolution whose cell bitmap holds at least threshold ids, every
\* stored id of cell[C] is in the Cell or Belly row of every child of C (of
\* the child set the builder uses) that its geometry touches.
C27_PushDown ==
    Built =>
        \A c \in Cells :
            (resolution(c) < MaxRes /\ Cardinality(Get(cell, KeyCell(c))) >= Threshold) =>
                \A i \in Get(cell, KeyCell(c)) \cap Stored : \A ch \in Children[c] :
                    Touches(item[i], ch) => (InCell(i, ch) \/ InBelly(i, ch))
\* The cell of the next coarser resolution that holds cell c.
ParentOf(c) == <<c[1] - 1, c[2] \div Fan>>
\* C28 (split rule, add-only histories): after the first build of a database
\* that was only added to, a row of a cell of resolution r+1 is stored only
\* under a parent whose cell bitmap holds at least threshold ids, a cell that
\* holds exactly threshold ids has a child row, and a cell that holds fewer
\* has none.
C28_SplitRule ==
    [][(/\ last'.op = "build" /\ last'.result = "Ok"
        /\ DOMAIN cell = {}
        /\ metadata = NoRow
        /\ \A i \in Ids : update[i] # "Delete")
          => /\ \A key \in DOMAIN cell' :
                    resolution(key[2]) > 0 =>
                        Cardinality(Get(cell', KeyCell(ParentOf(key[2])))) >= Threshold
             /\ \A c \in Cells :
                    (/\ resolution(c) < MaxRes
                     /\ Cardinality(Get(cell', KeyCell(c))) = Threshold)
                        => \E key \in DOMAIN cell' : key[2] \in Children[c]
             /\ \A c \in Cells :
                    (/\ resolution(c) < MaxRes
                     /\ Cardinality(Get(cell', KeyCell(c))) < Threshold)
                        => \A key \in DOMAIN cell' :
                              resolution(key[2]) > 0 => ParentOf(key[2]) # c]_vars

\* C29 (order independence of the reader): for a fixed database state and
\* query, in_shape returns the same set for every order in which the frontier
\* cells are seeded and enqueued, whenever that makes the too_large latch fire.
C29_OrderIndependent ==
    \A q \in Queries : \E fixed \in {in_shape(item, cell, q)} :
        \A ord \in TilerOrders : in_shape_in(item, cell, q, ord) = fixed
\* The cells the inspector saw in a run of the loop.
Seen(acc) == {acc.steps[n][2] : n \in 1..Len(acc.steps)}
C29_Witness ==
    \E q \in Queries : \E ord \in TilerOrders :
        \E a \in {ExploredIn(cell, q, ord)} : \E b \in {Explored(cell, q)} :
            /\ a.too_large /\ b.too_large
            /\ Seen(a) # Seen(b)
            /\ in_shape(item, cell, q).result = "Ok"
            /\ in_shape(item, cell, q).ret # {}

\* The five steps the inspector can be told.
FilteringStep ==
    {"NotPresentInDB", "OutsideOfShape", "Returned", "RequireDoubleCheck", "DeepDive"}
\* The cells the turn just taken pushed at the back of to_explore.
Pushed ==
    {reader'.to_explore[n] : n \in Len(reader.to_explore)..Len(reader'.to_explore)}

\* C30 (the reader's loop terminates and handles each cell at most once): a
\* cell already explored is skipped when dequeued, without a call of the
\* inspector; any other cell dequeued is reported to the inspector exactly once
\* with one of the five steps; the cells a DeepDive enqueues are one resolution
\* finer than the cell dived into, and no other step enqueues; and a call that
\* began its loop leaves it with every dequeued cell reported once.
C30_AtMostOnceAndTerminates ==
    /\ [][reader.pc = "loop" /\ reader' # reader =>
           IF reader.to_explore = <<>> THEN
               /\ reader' = Idle
               /\ Seen(reader.acc) = reader.already_explored
               /\ Cardinality(Seen(reader.acc)) = Len(reader.acc.steps)
           ELSE LET c == Head(reader.to_explore)
                    steps == reader.acc.steps
                    told == reader'.acc.steps
                IN  /\ reader'.pc = "loop"
                    /\ SubSeq(reader'.to_explore, 1, Len(reader.to_explore) - 1)
                           = Tail(reader.to_explore)
                    /\ \A d \in Pushed : resolution(d) = resolution(c) + 1
                    /\ IF c \in reader.already_explored
                       THEN /\ told = steps
                            /\ Pushed = {}
                            /\ reader'.already_explored = reader.already_explored
                            /\ reader'.acc.skipped = reader.acc.skipped + 1
                       ELSE /\ c \notin Seen(reader.acc)
                            /\ Len(told) = Len(steps) + 1
                            /\ SubSeq(told, 1, Len(steps)) = steps
                            /\ told[Len(told)][2] = c
                            /\ told[Len(told)][1] \in FilteringStep
                            /\ Pushed # {} => told[Len(told)][1] = "DeepDive"
                            /\ reader'.already_explored = reader.already_explored \cup {c}
                            /\ reader'.acc.skipped = reader.acc.skipped]_vars
    /\ reader.pc = "loop" ~> reader.pc = "idle"
\* A call whose loop has been left after a DeepDive, a skipped cell and a
\* returned cell.
C30_Witness ==
    /\ reader.pc = "loop"
    /\ reader.to_explore = <<>>
    /\ reader.acc.skipped > 0
    /\ \E n \in 1..Len(reader.acc.steps) : reader.acc.steps[n][1] = "DeepDive"
    /\ \E n \in 1..Len(reader.acc.steps) : reader.acc.steps[n][1] = "Returned"
    /\ reader.acc.ret # {}

\* The step reported by the turn just taken.
Told == reader'.acc.steps[Len(reader'.acc.steps)][1]

\* C31 (reader step selection): for a cell C present in the store that the
\* query intersects without containing, the reader reports RequireDoubleCheck
\* and adds cell[C] to the candidates iff |cell[C]| < threshold or C is at the
\* last resolution, and DeepDive otherwise; nothing is ever enqueued below the
\* last resolution, and a cell absent from the store is reported
\* NotPresentInDB and enqueues nothing.
C31_StepSelection ==
    [][(/\ reader.pc = "loop" /\ reader'.pc = "loop" /\ reader' # reader
        /\ Head(reader.to_explore) \notin reader.already_explored) =>
          LET c == Head(reader.to_explore)
              q == reader.q
          IN  /\ \A d \in Pushed : resolution(d) <= MaxRes
              /\ ~Has(cell, KeyCell(c)) =>
                    /\ Told = "NotPresentInDB"
                    /\ Pushed = {}
                    /\ reader'.acc.double_check = reader.acc.double_check
                    /\ reader'.acc.ret = reader.acc.ret
              /\ (Has(cell, KeyCell(c)) /\ QueryIntersects(q, c) /\ ~QueryContains(q, c)) =>
                    /\ Told \in {"RequireDoubleCheck", "DeepDive"}
                    /\ Told = "RequireDoubleCheck" <=>
                          (Cardinality(cell[KeyCell(c)]) < Threshold \/ resolution(c) = MaxRes)
                    /\ Told = "RequireDoubleCheck" =>
                          /\ reader'.acc.double_check
                                = reader.acc.double_check \cup cell[KeyCell(c)]
                          /\ Pushed = {}
                    /\ Told = "DeepDive" =>
                          /\ reader'.acc.double_check = reader.acc.double_check
                          /\ resolution(c) < MaxRes
                    /\ reader'.acc.ret = reader.acc.ret]_vars
\* A call that reported a DeepDive, a RequireDoubleCheck of a cell below the
\* threshold, a RequireDoubleCheck of a full cell of the last resolution and
\* a cell absent from the store.
C31_Witness ==
    /\ reader.pc = "loop"
    /\ \E n \in 1..Len(reader.acc.steps) : reader.acc.steps[n][1] = "DeepDive"
    /\ \E n \in 1..Len(reader.acc.steps) : reader.acc.steps[n][1] = "NotPresentInDB"
    /\ \E n \in 1..Len(reader.acc.steps) :
            /\ reader.acc.steps[n][1] = "RequireDoubleCheck"
            /\ resolution(reader.acc.steps[n][2]) = MaxRes
            /\ Cardinality(cell[KeyCell(reader.acc.steps[n][2])]) >= Threshold
    /\ \E n \in 1..Len(reader.acc.steps) :
            /\ reader.acc.steps[n][1] = "RequireDoubleCheck"
            /\ resolution(reader.acc.steps[n][2]) < MaxRes

\* C32 (too_large latch): during one call of in_shape the flag is set exactly
\* when a DeepDive step produces more than three cells that were not explored
\* yet, it is never reset, and a DeepDive taken while it is set tiles the
\* polygon of its own cell instead of the query polygon.
C32_TooLargeLatch ==
    [][(reader.pc = "loop" /\ reader'.pc = "loop" /\ reader' # reader) =>
          LET c == Head(reader.to_explore)
              q == reader.q
              dives == /\ c \notin reader.already_explored
                       /\ Told = "DeepDive"
              produced == IF reader.acc.too_large
                          THEN {d \in Cells : /\ resolution(d) = resolution(c) + 1
                                              /\ CellLo(d) <= CellHi(c)
                                              /\ CellHi(d) >= CellLo(c)}
                          ELSE {d \in Cells : /\ resolution(d) = resolution(c) + 1
                                              /\ CellLo(d) <= q.hi
                                              /\ CellHi(d) >= q.lo}
              fresh == produced \ reader.already_explored
          IN  /\ reader.acc.too_large => reader'.acc.too_large
              /\ (~reader.acc.too_large /\ reader'.acc.too_large)
                    <=> (~reader.acc.too_large /\ dives
                         /\ Cardinality(fresh) > TooLargeLimit)
              /\ dives => Pushed = produced \ reader'.already_explored]_vars
\* A call that set the latch with a DeepDive at resolution 0 and then took a
\* DeepDive at resolution 1.
C32_Witness ==
    /\ reader.pc = "loop"
    /\ reader.acc.too_large
    /\ Cardinality(Coverage(reader.q.lo, reader.q.hi, 1)) > TooLargeLimit
    /\ \E n \in 1..Len(reader.acc.steps) : \E m \in 1..Len(reader.acc.steps) :
            /\ n < m
            /\ reader.acc.steps[n] [1] = "DeepDive"
            /\ resolution(reader.acc.steps[n][2]) = 0
            /\ reader.acc.steps[m][1] = "DeepDive"
            /\ resolution(reader.acc.steps[m][2]) = 1
            /\ Coverage(reader.q.lo, reader.q.hi, 2)
                   # Coverage(CellLo(reader.acc.steps[m][2]),
                              CellHi(reader.acc.steps[m][2]), 2)

\* ------------------------------------------- level-0 explosion in parallel
\* The threads of the pool that runs the parallel loop of
\* insert_items_at_level_zero.
Workers == 1..NumWorkers
\* The pair (cells_map, belly_map) of a thread before its first item, which is
\* also the identity of the reduce.
NoMaps == [cells |-> <<>>, belly |-> <<>>]
\* entry(cell).or_insert_with(RoaringBitmap::new).insert(item), for the cells
\* of a vec.
InsertInEntries(map, vec, i) ==
    [c \in DOMAIN map \cup vec |-> IF c \in vec THEN Get(map, c) \cup {i} ELSE map[c]]
\* The body of the parallel loop for one item: explode it and insert it in
\* the maps of the thread.
ExplodeItem(maps, i, frozen_items) ==
    [cells |-> InsertInEntries(maps.cells, LevelZero[frozen_items[i]].cells, i),
     belly |-> InsertInEntries(maps.belly, LevelZero[frozen_items[i]].belly, i)]
\* The maps of a thread after the items it was handed, in the order handed.
RECURSIVE ThreadMaps(_, _, _)
ThreadMaps(maps, handed, frozen_items) ==
    IF handed = <<>> THEN maps
    ELSE ThreadMaps(ExplodeItem(maps, Head(handed), frozen_items), Tail(handed),
                    frozen_items)
\* *l.entry(k).or_default() |= v for every (k, v) of r
OrInto(l, r) == [k \in DOMAIN l \cup DOMAIN r |-> Get(l, k) \cup Get(r, k)]
\* A faulty reduce closure that overwrites the entry of the left map.
reduce_op_overwriting(l, r) ==
    [cells |-> [k \in DOMAIN l.cells \cup DOMAIN r.cells |->
                    IF k \in DOMAIN r.cells THEN r.cells[k] ELSE l.cells[k]],
     belly |-> [k \in DOMAIN l.belly \cup DOMAIN r.belly |->
                    IF k \in DOMAIN r.belly THEN r.belly[k] ELSE l.belly[k]]]
\* The closure of the reduce.
reduce_op(l, r) ==
    [cells |-> OrInto(l.cells, r.cells), belly |-> OrInto(l.belly, r.belly)]
\* Every result of a pairwise reduce of a sequence of maps: the sequence is
\* split anywhere, each part is reduced, a single map is combined with the
\* identity.
RECURSIVE Reduce(_)
Reduce(maps) ==
    IF maps = <<>> THEN {NoMaps}
    ELSE IF Len(maps) = 1 THEN {reduce_op(NoMaps, maps[1])}
    ELSE UNION {{reduce_op(l, r) : l \in Reduce(SubSeq(maps, 1, k)),
                                   r \in Reduce(SubSeq(maps, k + 1, Len(maps)))} :
                    k \in 1..(Len(maps) - 1)}
\* The orders in which the elements of a set can come.
RECURSIVE Perms(_)
Perms(S) ==
    IF S = {} THEN {<<>>}
    ELSE UNION {{<<x>> \o p : p \in Perms(S \ {x})} : x \in S}
\* Every pair of merged maps the parallel loop and the reduce can end with:
\* any assignment of the items to the threads, the items of a thread in any
\* order, the maps of the threads that ran reduced in any order.
ParallelMaps(items, frozen_items) ==
    UNION {UNION {UNION {Reduce([n \in 1..Len(threads) |->
                                   ThreadMaps(NoMaps, handed[threads[n]], frozen_items)]) :
                            threads \in Perms({w \in Workers : handed[w] # <<>>})} :
                     handed \in {h \in [Workers -> UNION {Perms(T) : T \in SUBSET items}] :
                                    \A w \in Workers :
                                        /\ Range(h[w]) = {i \in items : assign[i] = w}
                                        /\ Len(h[w]) = Cardinality(Range(h[w]))}} :
              assign \in [items -> Workers]}
\* The maps obtained by one thread that takes the items in ascending order.
SequentialMaps(items, frozen_items) == ThreadMaps(NoMaps, SortIds(items), frozen_items)
\* The write loops over the merged maps.
WriteMaps(tbl, maps) ==
    [key \in DOMAIN tbl \cup {KeyCell(c) : c \in DOMAIN maps.cells}
                        \cup {KeyBelly(c) : c \in DOMAIN maps.belly} |->
        Get(tbl, key) \cup (IF key[1] = "Cell" THEN Get(maps.cells, key[2])
                            ELSE Get(maps.belly, key[2]))]

\* C33 (level-0 explosion is deterministic under parallelism): for any
\* assignment of the inserted ids to threads and any order of the pairwise
\* reduce, the merged cell and belly maps equal those of one thread taking the
\* ids in ascending order, and so do the rows written at level 0.
C33_ParallelExplosion ==
    LET items == inserted_items(update)
        sequential == SequentialMaps(items, item)
    IN  /\ ParallelMaps(items, item) = {sequential}
        /\ \A ord \in Orders :
              insert_items_at_level_zero(BuildState(cell, 0), items, item, ord).cell
                  = WriteMaps(cell, sequential)
\* Two pending inserts that share a base cell, one of them with a belly, over
\* rows already written.
C33_Witness ==
    /\ Cardinality(inserted_items(update)) >= 2
    /\ \E c \in base_cells :
          Cardinality({i \in inserted_items(update) : c \in LevelZero[item[i]].cells}) >= 2
    /\ \E i \in inserted_items(update) : LevelZero[item[i]].belly # {}
    /\ DOMAIN cell # {}

\* The rows of a table that hold the id.
RowsWith(tbl, i) == {key \in DOMAIN tbl : i \in tbl[key]}

\* C34 (last writer wins in the update queue): the updates table holds one
\* marker per id at most, the kind of the most recent add or delete of the id
\* since the last drain; the inserted and deleted sets a build drains are
\* disjoint; an id whose last call was delete is absent after the build, and
\* an id whose last call was add is stored and indexed after the build.
C34_LastWriterWins ==
    [][/\ last'.op \in {"add", "add_raw_zerometry"} =>
            \E i \in Ids : /\ update' = [update EXCEPT ![i] = "Insert"]
                           /\ item'[i] # NoItem
       /\ last'.op = "delete" =>
            \E i \in Ids : update' = [update EXCEPT ![i] = "Delete"]
       /\ (last'.op = "build" /\ last'.result = "Ok") =>
            /\ last'.inserted \cap last'.deleted = {}
            /\ \A i \in Ids : update'[i] = "None"
            /\ \A i \in Ids : update[i] = "Delete" =>
                  /\ i \in last'.deleted
                  /\ item'[i] = NoItem
                  /\ RowsWith(cell', i) = {}
            /\ \A i \in Ids : update[i] = "Insert" =>
                  /\ i \in last'.inserted
                  /\ item'[i] = item[i]
                  /\ item'[i] # NoItem
                  /\ \A c \in LevelZero[item'[i]].cells : i \in Get(cell', KeyCell(c))
                  /\ \A c \in LevelZero[item'[i]].belly : i \in Get(cell', KeyBelly(c))
                  /\ i \in in_shape(item', cell', Envelope(item'[i])).ret]_vars
\* A build that drained an insert and a delete: the deleted id had been added
\* before and is gone, the inserted id is stored.
C34_Witness ==
    /\ Built
    /\ \E i \in last.inserted : item[i] # NoItem /\ RowsWith(cell, i) # {}
    /\ \E i \in last.deleted : item[i] = NoItem

\* The cells of the finer resolutions that lie inside c.
Descendants(c) ==
    {d \in Cells : /\ resolution(d) > resolution(c)
                   /\ CellLo(c) <= CellLo(d) /\ CellHi(d) <= CellHi(c)}

\* C35 (ancestor closure): after every successful build, every id of cell[C']
\* or belly[C'] of a cell C' of resolution r > 0 is in the cell bitmap of a
\* cell of resolution r-1 that has C' among its children, the cell it was
\* pushed down from; so no cell below a cell absent from the store holds an
\* id.
C35_AncestorClosure ==
    Built =>
        /\ \A key \in DOMAIN cell :
              resolution(key[2]) > 0 =>
                  \A i \in cell[key] :
                      \E c \in Cells : /\ key[2] \in Children[c]
                                       /\ i \in Get(cell, KeyCell(c))
        /\ \A c \in Cells :
              ~Has(cell, KeyCell(c)) =>
                  \A d \in Descendants(c) :
                      Get(cell, KeyCell(d)) = {} /\ Get(cell, KeyBelly(d)) = {}

\* C36 (no missing geometry without cancellation): in any sequence of add,
\* delete, clear and build calls in which no build is cancelled, build never
\* returns InternalDocIdMissing: every id with an Insert marker and every id
\* of a cell bitmap has a geometry in the items table.
C36_NoInternalDocIdMissing ==
    /\ last.op = "build" => last.result = "Ok"
    /\ \A i \in Ids : update[i] = "Insert" => item[i] # NoItem
    /\ \A key \in DOMAIN cell : key[1] = "Cell" => \A i \in cell[key] : item[i] # NoItem
\* A build that inserted an id in a base cell which held an older id and
\* reached the threshold with it: the older id was classified again and
\* handed down.
C36_Witness ==
    /\ Built
    /\ \E b \in base_cells : \E i \in Get(cell, KeyCell(b)) \cap last.inserted :
          \E j \in Get(cell, KeyCell(b)) \ last.inserted :
              /\ Cardinality(Get(cell, KeyCell(b))) >= Threshold
              /\ \E ch \in Children[b] : {i, j} \subseteq Get(cell, KeyCell(ch))

\* C37 (queries reflect the last build only): no add, add_raw_zerometry or
\* delete changes the set in_shape returns for a query, also when the id added
\* is already indexed; only a build or a clear does.
C37_QueriesReflectLastBuild ==
    [][last'.op \in {"add", "add_raw_zerometry", "delete"} =>
          \A q \in Queries : in_shape(item', cell', q) = in_shape(item, cell, q)]_vars

\* C38 (recursive-split skip at level 0): during a build, a base cell whose
\* cell bitmap holds fewer than threshold ids, or none of the ids this build
\* inserts, is not descended into: every row of a cell below it is left as the
\* removal of the deleted ids left it.
C38_SplitSkip ==
    [][(last'.op = "build" /\ last'.result = "Ok") =>
          LET scanned == remove_deleted_items_from_cells(cell, removed_items(update))
              bitmap(b) == Get(cell', KeyCell(b))
          IN  \A b \in base_cells :
                (\/ Cardinality(bitmap(b)) < Threshold
                 \/ bitmap(b) \cap inserted_items(update) = {}) =>
                    \A d \in Descendants(b) : \A key \in {KeyCell(d), KeyBelly(d)} :
                        /\ Has(cell', key) <=> Has(scanned, key)
                        /\ Get(cell', key) = Get(scanned, key)]_vars

\* --------------------------------------------------------------- key codec
\* std::mem::size_of::<f64>()
ALIGNMENT == 8
\* The u64 of a cell index: the resolution above the number of the cell in
\* its resolution.  The indexes of the model fit in four bytes.
CellId(c) == resolution(c) * 65536 + c[2] * 64
\* u64::to_be_bytes, the most significant byte first.
to_be_bytes(n) == [j \in 1..8 |-> IF j <= 4 THEN 0 ELSE (n \div Pow(256, 8 - j)) % 256]
\* BigEndian::read_u64
read_u64(bytes) ==
    bytes[5] * Pow(256, 3) + bytes[6] * Pow(256, 2) + bytes[7] * 256 + bytes[8]
\* KeyVariant as u8
VariantByte(variant) == IF variant = "Cell" THEN 1 ELSE 2
Zeros(n) == [j \in 1..n |-> 0]
\* A faulty encoder that writes the cell id the least significant byte first.
bytes_encode_little_endian(key) ==
    [j \in 1..8 |-> IF j > 4 THEN 0 ELSE (CellId(key[2]) \div Pow(256, j - 1)) % 256]
        \o <<VariantByte(key[1])>> \o Zeros(ALIGNMENT - ((1 + 8) % ALIGNMENT))
\* CellKeyCodec::bytes_encode
bytes_encode(key) ==
    LET capacity == 1 + 8
        missing_to_align == ALIGNMENT - (capacity % ALIGNMENT)
    IN  to_be_bytes(CellId(key[2])) \o <<VariantByte(key[1])>> \o Zeros(missing_to_align)
\* CellIndex::try_from: the cell of a u64, if it is the u64 of a cell.
CellOf(id) ==
    IF /\ id % 64 = 0
       /\ id \div 65536 \in Resolutions
       /\ (id % 65536) \div 64 < NumCells(id \div 65536)
    THEN <<id \div 65536, (id % 65536) \div 64>>
    ELSE "InvalidCellIndex"
\* CellKeyCodec::bytes_decode: the cell of the first eight bytes, the variant
\* of the ninth; the padding is skipped.
bytes_decode(bytes) ==
    IF bytes[9] = 1 THEN <<"Cell", CellOf(read_u64(bytes))>>
    ELSE IF bytes[9] = 2 THEN <<"Belly", CellOf(read_u64(bytes))>>
    ELSE "unreachable"
\* Every key with the bytes under which the store holds it.
EncodedKeys == {<<key, bytes_encode(key)>> : key \in Keys}
\* The order of the keys in the store: byte by byte.
LexLess(a, b) ==
    \/ Len(a) < Len(b) /\ \A j \in 1..Len(a) : a[j] = b[j]
    \/ \E j \in 1..Min(Len(a), Len(b)) :
          a[j] < b[j] /\ \A h \in 1..(j - 1) : a[h] = b[h]
\* Every key with its position in the order of the store: the number of
\* keys whose bytes sort before its own.
KeyRanks ==
    {<<p[1], Cardinality({q \in EncodedKeys : LexLess(q[2], p[2])})>> : p \in EncodedKeys}
\* U64<BE>: the eight bytes of each cell index, the prefix of a scan.
EncodedCells == [c \in Cells |-> to_be_bytes(CellId(c))]
\* The rows of a table as the store holds them, under the bytes of their key.
EncodedStore(tbl) == {<<bytes_encode(key), tbl[key]>> : key \in DOMAIN tbl}
\* prefix_iter under U64<BE>: the rows whose key begins with the eight bytes
\* of the cell index.
prefix_iter(store, prefix) ==
    UNION {{row \in store : SubSeq(row[1], 1, 8) = bytes} : bytes \in {prefix}}
\* retrieve_cell_and_belly: the scan of the prefix of the cell, each row
\* decoded and kept under its variant.
retrieve_cell_and_belly(store, c) ==
    CHOOSE out \in
        {[cell |-> IF \E row \in rows : row[1][1] = "Cell"
                   THEN (CHOOSE row \in rows : row[1][1] = "Cell")[2] ELSE "None",
          belly |-> IF \E row \in rows : row[1][1] = "Belly"
                    THEN (CHOOSE row \in rows : row[1][1] = "Belly")[2] ELSE "None"] :
            rows \in {{<<bytes_decode(row[1]), row[2]>> :
                          row \in prefix_iter(store, EncodedCells[c])}}} : TRUE

\* C39 (cell key codec): the encoding of Key::Cell(c) or Key::Belly(c) is 16
\* bytes, the cell id in 8 bytes big-endian, the variant byte 1 or 2 and 7
\* zero bytes; decoding it gives the key back; byte by byte Cell(c) sorts
\* right before Belly(c), no key between them; and the
\* prefix scan on the cell id returns exactly the cell and belly rows of the
\* cell.
C39_KeyCodec ==
    /\ \A p \in EncodedKeys :
          \E key \in {p[1]} : \E e \in {p[2]} :
              /\ Len(e) = 16
              /\ \A j \in 1..4 : e[j] = 0
              /\ e[5] * 16777216 + e[6] * 65536 + e[7] * 256 + e[8] = CellId(key[2])
              /\ \A j \in 5..8 : e[j] \in 0..255
              /\ e[9] = (IF key[1] = "Cell" THEN 1 ELSE 2)
              /\ \A j \in 10..16 : e[j] = 0
              /\ bytes_decode(e) = key
    /\ \A p \in KeyRanks :
          p[1][1] = "Cell" => <<KeyBelly(p[1][2]), p[2] + 1>> \in KeyRanks
    /\ \E store \in {EncodedStore(cell)} :
          \A c \in Cells :
              /\ {<<bytes_decode(row[1]), row[2]>> :
                     row \in prefix_iter(store, EncodedCells[c])} =
                    {<<key, cell[key]>> : key \in {KeyCell(c), KeyBelly(c)} \cap DOMAIN cell}
              /\ retrieve_cell_and_belly(store, c) =
                    [cell |-> IF Has(cell, KeyCell(c)) THEN cell[KeyCell(c)] ELSE "None",
                     belly |-> IF Has(cell, KeyBelly(c)) THEN cell[KeyBelly(c)] ELSE "None"]
\* A store that holds the cell and belly rows of one cell, with different
\* bitmaps, among the rows of other cells of its resolution and of others.
C39_Witness ==
    \E c \in Cells :
        /\ Has(cell, KeyCell(c)) /\ Has(cell, KeyBelly(c))
        /\ cell[KeyCell(c)] # cell[KeyBelly(c)]
        /\ \E d \in Cells \ {c} : resolution(d) = resolution(c) /\ HasRow(d)
        /\ \E d \in Cells : resolution(d) # resolution(c) /\ HasRow(d)

\* ------------------------------------------------------------ bitmap codec
u16_le(n) == <<n % 256, n \div 256>>
u32_le(n) == <<n % 256, (n \div 256) % 256, (n \div 65536) % 256, n \div 16777216>>
\* The first four bytes of a serialized bitmap without run containers.
SerialCookie == u32_le(12346)
read_u16_le(bytes, at) == bytes[at] + 256 * bytes[at + 1]
read_u32_le(bytes, at) ==
    bytes[at] + 256 * bytes[at + 1] + 65536 * bytes[at + 2] + 16777216 * bytes[at + 3]
\* The members of a set of numbers in increasing order.
Sorted(S) ==
    [m \in 1..Cardinality(S) |-> CHOOSE v \in S : Cardinality({w \in S : w < v}) = m - 1]
RECURSIVE Concat(_)
Concat(seqs) == IF seqs = <<>> THEN <<>> ELSE Head(seqs) \o Concat(Tail(seqs))
\* The containers of a bitmap: the ids that share their upper 16 bits.
Container(bitmap, k) == {v \in bitmap : v \div 65536 = k}
\* RoaringBitmap::serialize_into: the cookie, the number of containers, the
\* key and the cardinality minus one of each container, the offset of each
\* container, and the lower 16 bits of the ids of each container in order.
serialize_into(bitmap) ==
    LET keys == Sorted({v \div 65536 : v \in bitmap})
        n == Len(keys)
        values(m) == Sorted(Container(bitmap, keys[m]))
        offset(m) == 8 + 8 * n + 2 * Cardinality({v \in bitmap : v \div 65536 < keys[m]})
    IN  SerialCookie \o u32_le(n)
        \o Concat([m \in 1..n |-> u16_le(keys[m]) \o u16_le(Len(values(m)) - 1)])
        \o Concat([m \in 1..n |-> u32_le(offset(m))])
        \o Concat([m \in 1..n |->
              Concat([j \in 1..Len(values(m)) |-> u16_le(values(m)[j] % 65536)])])
\* RoaringBitmap::deserialize_unchecked_from: reads the containers the header
\* announces and leaves the bytes after them unread.
deserialize_unchecked_from(bytes) ==
    IF Len(bytes) < 8 \/ SubSeq(bytes, 1, 4) # SerialCookie THEN "Err"
    ELSE LET n == read_u32_le(bytes, 5)
             key(m) == read_u16_le(bytes, 8 + 4 * (m - 1) + 1)
             card(m) == read_u16_le(bytes, 8 + 4 * (m - 1) + 3) + 1
             start(m) == read_u32_le(bytes, 8 + 4 * n + 4 * (m - 1) + 1)
         IN  UNION {{key(m) * 65536 + read_u16_le(bytes, start(m) + 2 * (j - 1) + 1) :
                        j \in 1..card(m)} : m \in 1..n}
\* A faulty encoder that pads only up to the next multiple of the alignment.
roaring_bytes_encode_unpadded_when_aligned(bitmap) ==
    LET bytes == serialize_into(bitmap)
    IN  bytes \o Zeros((ALIGNMENT - (Len(bytes) % ALIGNMENT)) % ALIGNMENT)
\* RoaringBitmapCodec::bytes_encode
roaring_bytes_encode(bitmap) ==
    LET bytes == serialize_into(bitmap)
        missing_to_align == ALIGNMENT - (Len(bytes) % ALIGNMENT)
    IN  bytes \o Zeros(missing_to_align)
\* RoaringBitmapCodec::bytes_decode
roaring_bytes_decode(bytes) == deserialize_unchecked_from(bytes)
\* Every bitmap with its serialization and with the value the store holds.
EncodedBitmaps ==
    {<<bitmap, serialize_into(bitmap), roaring_bytes_encode(bitmap)>> : bitmap \in SUBSET Ids}

\* C40 (bitmap value padding): the value stored for a bitmap is its
\* serialization followed by 1 to 8 zero bytes, its length is a multiple of
\* 8, a serialization whose length is a multiple of 8 gets 8 zero bytes, and
\* decoding the value gives the bitmap back; so does every row of the cell
\* table.
C40_BitmapPadding ==
    /\ \A p \in EncodedBitmaps :
          \E s \in {p[2]} : \E e \in {p[3]} :
              /\ Len(e) % 8 = 0
              /\ Len(e) - Len(s) \in 1..8
              /\ SubSeq(e, 1, Len(s)) = s
              /\ \A j \in (Len(s) + 1)..Len(e) : e[j] = 0
              /\ Len(s) % 8 = 0 => Len(e) = Len(s) + 8
              /\ roaring_bytes_decode(e) = p[1]
    /\ \A key \in DOMAIN cell :
          \E e \in {roaring_bytes_encode(cell[key])} :
              /\ Len(e) % 8 = 0
              /\ Len(e) - Len(serialize_into(cell[key])) \in 1..8
              /\ e[Len(e)] = 0
              /\ roaring_bytes_decode(e) = cell[key]
\* The cell table holds an empty bitmap, whose serialization of 8 bytes is
\* stored in 16, beside a bitmap whose serialization is no multiple of 8.
C40_Witness ==
    /\ \E key \in DOMAIN cell :
          /\ cell[key] = {}
          /\ Len(serialize_into(cell[key])) = 8
          /\ Len(roaring_bytes_encode(cell[key])) = 16
    /\ \E key \in DOMAIN cell :
          /\ Len(serialize_into(cell[key])) % 8 # 0
          /\ roaring_bytes_decode(roaring_bytes_encode(cell[key])) = cell[key]
====
